---- MODULE Spec2Model ----
(***************************************************************************)
(* Model of sktime/datatypes/_utilities.py: get_time_index, get_cutoff and *)
(* get_window over the container encodings (mtypes) of sktime.             *)
(*                                                                         *)
(* A container is a record with the same fields for every Python type:     *)
(*   pytype  "ndarray" | "Series" | "DataFrame" | "list" | "tuple"         *)
(*   shape   ndarray: the shape tuple                                      *)
(*   data    ndarray: the buffer in row-major order; tuple: its items      *)
(*   names   pandas: the names of the index levels (one per level)         *)
(*   dtypes  pandas: the dtype of every column ("object" or "int64")       *)
(*   rows    pandas: the rows in order, [key |-> index tuple, cells]       *)
(*   items   list: the tables of the list                                  *)
(* A cell is a number or a nested pd.Series with its own index.            *)
(***************************************************************************)
EXTENDS Integers, Sequences, FiniteSets, TLC

\* ------------------------------------------------------------------ bounds
MaxTime == 2        \* generated time-index values are 0..MaxTime
MaxLen  == 2        \* generated series hold at most MaxLen time points
MaxInst == 2        \* generated panels hold at most MaxInst instances
MaxWin  == 2        \* window_length is drawn from -1..MaxWin (or None)
MaxLag  == 1        \* lag is drawn from -1..MaxLag
MaxOff  == 1        \* the cutoff offset is drawn from -1..MaxOff (or None)

\* ---------------------------------------------------------------- helpers
Min2(a, b) == IF a < b THEN a ELSE b
Max2(a, b) == IF a > b THEN a ELSE b

RECURSIVE Prod(_)
Prod(s) == IF s = <<>> THEN 1 ELSE Head(s) * Prod(Tail(s))

RECURSIVE Flatten(_)
Flatten(ss) == IF ss = <<>> THEN <<>> ELSE Head(ss) \o Flatten(Tail(ss))

Last(s) == s[Len(s)]

\* Python's max(list): the first of the largest elements.
RECURSIVE PyMax(_)
PyMax(s) == IF Len(s) = 1 THEN s[1]
            ELSE LET m == PyMax(Tail(s)) IN IF m > Head(s) THEN m ELSE Head(s)

SetMin(S) == CHOOSE x \in S : \A y \in S : x <= y

RECURSIVE SortSet(_)
SortSet(S) == IF S = {} THEN <<>>
              ELSE LET m == SetMin(S) IN <<m>> \o SortSet(S \ {m})

Range(s) == {s[i] : i \in 1..Len(s)}

IsSorted(s) == \A i \in 1..(Len(s) - 1) : s[i] < s[i + 1]

\* RangeIndex(a, b) = a, a+1, ..., b-1
RangeIndex(a, b) == [i \in 1..Max2(b - a, 0) |-> a + i - 1]

\* Optional integers (None or an int).
None == [none |-> TRUE, v |-> 0]
Some(v) == [none |-> FALSE, v |-> v]

\* ------------------------------------------------------------- containers
ScalarCell(v) == [isobj |-> FALSE, num |-> v, index |-> <<>>, values |-> <<>>]
SeriesCell(idx, vals) == [isobj |-> TRUE, num |-> 0, index |-> idx, values |-> vals]

\* rangeindex: the index of a table is a pd.RangeIndex (the default index),
\* whose elements are Python ints; the elements of an index built from
\* values are numpy integers.
Container(pytype, shape, data, names, dtypes, rows, items) ==
    [pytype |-> pytype, shape |-> shape, data |-> data, names |-> names,
     dtypes |-> dtypes, rows |-> rows, items |-> items, rangeindex |-> FALSE]

\* a one-level table with the default index 0..n-1
WithRangeIndex(df) == [df EXCEPT !.rangeindex = TRUE]

NdArray(shape, data) == Container("ndarray", shape, data, <<>>, <<>>, <<>>, <<>>)
PdSeries(names, rows) == Container("Series", <<>>, <<>>, names, <<"int64">>, rows, <<>>)
PdDataFrame(names, dtypes, rows) ==
    Container("DataFrame", <<>>, <<>>, names, dtypes, rows, <<>>)
PyList(items) == Container("list", <<>>, <<>>, <<>>, <<>>, <<>>, items)
PyTuple(data) == Container("tuple", <<>>, data, <<>>, <<>>, <<>>, <<>>)

Row(key, cells) == [key |-> key, cells |-> cells]

ndim(obj) == Len(obj.shape)
nlevels(obj) == Len(obj.names)
IsMultiIndex(obj) == nlevels(obj) > 1

\* len(obj)
PyLen(obj) ==
    CASE obj.pytype = "ndarray" -> obj.shape[1]
      [] obj.pytype \in {"Series", "DataFrame"} -> Len(obj.rows)
      [] obj.pytype = "list" -> Len(obj.items)
      [] OTHER -> Len(obj.data)

\* obj.index of a single-index table, obj.index.get_level_values(-1) otherwise
TimeValues(rows) == [i \in 1..Len(rows) |-> Last(rows[i].key)]

\* Python slice bounds: a negative bound counts from the end, both are clamped.
SliceBound(i, n) == IF i < 0 THEN Max2(i + n, 0) ELSE Min2(i, n)

\* obj[start:stop] on the first axis of an ndarray (stop = None: to the end).
SliceFirstAxis(obj, start, stop) ==
    LET n == obj.shape[1]
        stride == Prod(Tail(obj.shape))
        a == SliceBound(start, n)
        b == IF stop.none THEN n ELSE SliceBound(stop.v, n)
        k == Max2(b - a, 0)
    IN  NdArray(<<k>> \o Tail(obj.shape),
                SubSeq(obj.data, a * stride + 1, (a + k) * stride))

\* ---------------------------------------------------------------- results
NoObj == PyTuple(<<>>)

Pending == [kind |-> "pending", ty |-> "-", int |-> 0, index |-> <<>>,
            keys |-> <<>>, obj |-> NoObj, err |-> "", alias |-> FALSE,
            shared |-> FALSE]
Raise(e) == [Pending EXCEPT !.kind = "raise", !.err = e]
RetInt(v) == [Pending EXCEPT !.kind = "return", !.ty = "int", !.int = v]
RetIndex(s) == [Pending EXCEPT !.kind = "return", !.ty = "Index", !.index = s]
RetMultiIndex(k) == [Pending EXCEPT !.kind = "return", !.ty = "MultiIndex", !.keys = k]
\* a tuple, the element of an index of more than one level
RetTuple(k) == [Pending EXCEPT !.kind = "return", !.ty = "tuple", !.keys = <<k>>]
\* a bound method, what the attribute index of a list or a tuple is
RetMethod == [Pending EXCEPT !.kind = "return", !.ty = "method"]
RetNone == [Pending EXCEPT !.kind = "return", !.ty = "None"]

\* The objects of a call, in order of creation; the first one is the
\* container the caller passed.  An object records its value and the object
\* whose memory holds its entries (itself, unless it is a view).
Object(val, base) == [val |-> val, base |-> base]
Heap(obj) == <<Object(obj, 1)>>

\* a new object that owns its entries
Alloc(heap, val) == Append(heap, Object(val, Len(heap) + 1))

\* a new object over the memory of the object at position of: what basic
\* slicing of an ndarray, obj[start:stop], gives
AllocView(heap, val, of) == Append(heap, Object(val, heap[of].base))

\* A container returned by reference: alias when it is the object the caller
\* passed, shared when its entries lie in the memory of that object.
RetRef(heap, id) ==
    [Pending EXCEPT !.kind = "return", !.ty = "container", !.obj = heap[id].val,
                    !.alias = (id = 1), !.shared = (heap[id].base = 1)]

\* ------------------------------------------------------------- get_cutoff
\* objcols = [x for x in obj.columns if obj.dtypes[x] == "object"]
objcols(obj) == {c \in 1..Len(obj.dtypes) : obj.dtypes[c] = "object"}

\* [x for col in objcols for x in obj[col]]: the cells of the object-typed
\* columns, column by column.
ObjCells(obj) ==
    Flatten([c \in 1..Len(obj.dtypes) |->
               IF obj.dtypes[c] = "object"
               THEN [r \in 1..Len(obj.rows) |-> obj.rows[r].cells[c]]
               ELSE <<>>])

\* obj.loc[x].index.get_level_values(-1): the time values of the rows whose
\* index tuple starts with x.
LocTimeValues(obj, x) ==
    TimeValues(SelectSeq(obj.rows, LAMBDA r : SubSeq(r.key, 1, Len(r.key) - 1) = x))

\* series_idx = [obj.loc[x].index.get_level_values(-1) for x in idx.droplevel(-1)]
series_idx(obj) ==
    [i \in 1..Len(obj.rows) |->
        LocTimeValues(obj, SubSeq(obj.rows[i].key, 1, Len(obj.rows[i].key) - 1))]

\* max over the last values of a list of indexes; x.index[-1] of an empty
\* index is an IndexError.  Returned bare, or wrapped as a length-1 index.
MaxOfLasts(idxs, return_index) ==
    IF \E i \in 1..Len(idxs) : idxs[i] = <<>> THEN Raise("IndexError")
    ELSE LET m == PyMax([i \in 1..Len(idxs) |-> Last(idxs[i])])
         IN  IF return_index THEN RetIndex(<<m>>) ELSE RetInt(m)

\* A slip that wraps the offset of an empty container when an index is asked.
cutoff_empty_wrapped(cutoff, return_index) ==
    IF return_index THEN RetIndex(<<cutoff>>) ELSE RetInt(cutoff)

\* lines 114-115: if len(obj) == 0: return cutoff
cutoff_empty(cutoff, return_index) == RetInt(cutoff)

\* A slip that reads the first dimension of every buffer, 3-D ones included.
cutoff_ndarray_first_dim(obj, cutoff, return_index) ==
    IF ndim(obj) > 3 THEN Raise("UnboundLocalError")
    ELSE LET cutoff_ind == obj.shape[1] + cutoff
         IN  IF return_index THEN RetIndex(RangeIndex(cutoff_ind - 1, cutoff_ind))
             ELSE RetInt(cutoff_ind)

\* lines 117-126: numpy3D (Panel) or np.ndarray (Series)
cutoff_ndarray(obj, cutoff, return_index) ==
    IF ndim(obj) > 3 THEN Raise("UnboundLocalError")
    ELSE LET cutoff_ind == IF ndim(obj) = 3 THEN Last(obj.shape) + cutoff
                           ELSE obj.shape[1] + cutoff
         IN  IF return_index THEN RetIndex(RangeIndex(cutoff_ind - 1, cutoff_ind))
             ELSE RetInt(cutoff_ind)

\* An index element, bare or wrapped as an index of length 1: an int and an
\* Index for an index of one level, the whole tuple and a MultiIndex for an
\* index of more levels.
IndexElement(key, return_index) ==
    IF Len(key) = 1
    THEN IF return_index THEN RetIndex(<<key[1]>>) ELSE RetInt(key[1])
    ELSE IF return_index THEN RetMultiIndex(<<key>>) ELSE RetTuple(key)

\* lines 128-129 and 135-136: obj.index[[-1]] if return_index else obj.index[-1]
cutoff_single_index(obj, return_index) == IndexElement(Last(obj.rows).key, return_index)

\* x.index[-1] for the cells x in order, lines 140 and 142: the error of the
\* first cell that fails ("" when none does).  A number has no index
\* (AttributeError), an empty series no last index value (IndexError).
NestedCellError(cells) ==
    LET bad == {i \in 1..Len(cells) : ~cells[i].isobj \/ cells[i].index = <<>>}
    IN  IF bad = {} THEN ""
        ELSE IF ~cells[SetMin(bad)].isobj THEN "AttributeError" ELSE "IndexError"

\* lines 137-143: nested_univ
cutoff_nested(obj, return_index) ==
    IF NestedCellError(ObjCells(obj)) # "" THEN Raise(NestedCellError(ObjCells(obj)))
    ELSE MaxOfLasts([i \in 1..Len(ObjCells(obj)) |-> ObjCells(obj)[i].index],
                    return_index)

\* A slip that reads the last row of the table instead of every instance.
cutoff_multiindex_last_row(obj, return_index) ==
    MaxOfLasts(<<TimeValues(obj.rows)>>, return_index)

\* lines 145-153: pd-multiindex (Panel) and pd_multiindex_hier (Hierarchical)
cutoff_multiindex(obj, return_index) == MaxOfLasts(series_idx(obj), return_index)

\* A slip that reads the last table of the list only.
cutoff_dflist_last_table(obj, return_index) ==
    MaxOfLasts(<<TimeValues(Last(obj.items).rows)>>, return_index)

\* x.index[-1] for the items x of a list in order, lines 158 and 160: the
\* error of the first item that fails ("" when none does).  An ndarray has
\* no attribute index, the index of a list or tuple is a method and cannot be
\* subscripted, an empty table has no last index value.
ItemError(items) ==
    LET err(x) == CASE x.pytype = "ndarray" -> "AttributeError"
                    [] x.pytype \in {"list", "tuple"} -> "TypeError"
                    [] x.rows = <<>> -> "IndexError"
                    [] OTHER -> ""
        bad == {i \in 1..Len(items) : err(items[i]) # ""}
    IN  IF bad = {} THEN "" ELSE err(items[SetMin(bad)])

\* a > b for two tuples: Python compares them element by element
RECURSIVE TupleGreater(_, _)
TupleGreater(a, b) ==
    IF a = <<>> THEN FALSE
    ELSE IF b = <<>> THEN TRUE
    ELSE IF Head(a) # Head(b) THEN Head(a) > Head(b)
    ELSE TupleGreater(Tail(a), Tail(b))

\* The last index element of a table, x.index[-1]: its key, and whether it
\* is a Python int (the element of a RangeIndex).
LastElement(x) == [key |-> Last(x.rows).key, pyint |-> x.rangeindex]

\* a > b as max evaluates it for two last index elements (for the two
\* length-1 indexes when return_index): gt is the outcome, err the error
\* raised instead.  Numbers compare by value and tuples element by element.
\* A Python int does not compare with a tuple (TypeError); a numpy integer
\* compared with a tuple gives an array of booleans, whose truth value max
\* cannot take (ValueError); an Index does not compare with a MultiIndex
\* (TypeError).
ElementGreater(a, b, return_index) ==
    IF Len(a.key) = 1 /\ Len(b.key) = 1
    THEN [err |-> "", gt |-> a.key[1] > b.key[1]]
    ELSE IF Len(a.key) > 1 /\ Len(b.key) > 1
    THEN [err |-> "", gt |-> TupleGreater(a.key, b.key)]
    ELSE LET number == IF Len(a.key) = 1 THEN a ELSE b
         IN  [err |-> IF return_index \/ number.pyint THEN "TypeError" ELSE "ValueError",
              gt |-> FALSE]

\* Python's max(idxs), line 161: the elements are visited in order, and an
\* element replaces the largest so far when it is greater.
RECURSIVE MaxElement(_, _, _)
MaxElement(largest, rest, return_index) ==
    IF rest = <<>> THEN [err |-> "", el |-> largest]
    ELSE LET c == ElementGreater(Head(rest), largest, return_index)
         IN  IF c.err # "" THEN [err |-> c.err, el |-> largest]
             ELSE MaxElement(IF c.gt THEN Head(rest) ELSE largest, Tail(rest),
                             return_index)

\* lines 155-161: df-list (Panel).  The last index elements are numbers for
\* tables of one index level and tuples for tables of more.
cutoff_dflist(obj, return_index) ==
    IF ItemError(obj.items) # "" THEN Raise(ItemError(obj.items))
    ELSE LET idxs == [i \in 1..Len(obj.items) |-> LastElement(obj.items[i])]
             m == MaxElement(Head(idxs), Tail(idxs), return_index)
         IN  IF m.err # "" THEN Raise(m.err) ELSE IndexElement(m.el.key, return_index)

\* get_cutoff(obj, cutoff=0, return_index=False); cutoff is None or an int.
get_cutoff(obj, cutoff_arg, return_index) ==
    LET cutoff == IF cutoff_arg.none THEN 0 ELSE cutoff_arg.v
    IN  IF obj.pytype = "ndarray" /\ ndim(obj) = 0 THEN Raise("TypeError")
        ELSE IF PyLen(obj) = 0 THEN cutoff_empty(cutoff, return_index)
        ELSE IF obj.pytype = "ndarray" THEN cutoff_ndarray(obj, cutoff, return_index)
        ELSE IF obj.pytype = "Series" THEN cutoff_single_index(obj, return_index)
        ELSE IF obj.pytype = "DataFrame" /\ ~IsMultiIndex(obj)
             THEN IF objcols(obj) = {} THEN cutoff_single_index(obj, return_index)
                  ELSE cutoff_nested(obj, return_index)
        ELSE IF obj.pytype = "DataFrame" /\ IsMultiIndex(obj)
             THEN cutoff_multiindex(obj, return_index)
        ELSE IF obj.pytype = "list" THEN cutoff_dflist(obj, return_index)
        ELSE RetNone

\* ------------------------------------------- type detection and conversion
\* The mtype tag of a container, "invalid" when it has none.
MtypeOf(obj) ==
    CASE obj.pytype = "ndarray" ->
            IF ndim(obj) \in {1, 2} THEN "np.ndarray"
            ELSE IF ndim(obj) = 3 THEN "numpy3D" ELSE "invalid"
      [] obj.pytype = "Series" -> IF nlevels(obj) = 1 THEN "pd.Series" ELSE "invalid"
      [] obj.pytype = "DataFrame" ->
            IF nlevels(obj) = 2 THEN "pd-multiindex"
            ELSE IF nlevels(obj) > 2 THEN "pd_multiindex_hier"
            ELSE IF objcols(obj) = {} THEN "pd.DataFrame"
            ELSE IF objcols(obj) = 1..Len(obj.dtypes) THEN "nested_univ"
            ELSE "invalid"
      [] obj.pytype = "list" ->
            IF \A i \in 1..Len(obj.items) :
                   /\ obj.items[i].pytype = "DataFrame"
                   /\ nlevels(obj.items[i]) = 1
                   /\ objcols(obj.items[i]) = {}
            THEN "df-list" ELSE "invalid"
      [] OTHER -> "invalid"

Scitype(mtype) ==
    CASE mtype \in {"np.ndarray", "pd.Series", "pd.DataFrame"} -> "Series"
      [] mtype \in {"numpy3D", "nested_univ", "pd-multiindex", "df-list"} -> "Panel"
      [] mtype = "pd_multiindex_hier" -> "Hierarchical"
      [] OTHER -> "invalid"

\* The index tuples of the rows without their last (time) level, in order of
\* first appearance.
RECURSIVE Dedup(_)
Dedup(s) == IF s = <<>> THEN <<>>
            ELSE <<Head(s)>> \o Dedup(SelectSeq(Tail(s), LAMBDA x : x # Head(s)))

InstanceKeys(obj) ==
    Dedup([i \in 1..Len(obj.rows) |-> SubSeq(obj.rows[i].key, 1, Len(obj.rows[i].key) - 1)])

\* check_is_scitype(obj, scitype=["Series", "Panel", "Hierarchical"],
\* return_metadata=True): valid when the container has an mtype of one of the
\* three scitypes and a monotonically increasing time index per instance.
check_is_scitype(obj) ==
    LET mtype == MtypeOf(obj)
        sorted ==
            CASE mtype \in {"pd.Series", "pd.DataFrame"} -> IsSorted(TimeValues(obj.rows))
              [] mtype \in {"pd-multiindex", "pd_multiindex_hier"} ->
                    \A i \in 1..Len(InstanceKeys(obj)) :
                        IsSorted(LocTimeValues(obj, InstanceKeys(obj)[i]))
              [] mtype = "df-list" ->
                    \A i \in 1..Len(obj.items) : IsSorted(TimeValues(obj.items[i].rows))
              [] OTHER -> TRUE
    IN  [valid |-> mtype # "invalid" /\ sorted, mtype |-> mtype]

NaN == 0 - 1

CellAt(cell, t) ==
    IF \E k \in 1..Len(cell.index) : cell.index[k] = t
    THEN ScalarCell(cell.values[CHOOSE k \in 1..Len(cell.index) : cell.index[k] = t])
    ELSE ScalarCell(NaN)

\* Series scitype: every mtype converts to and from pd.DataFrame.
ToDataFrame(obj, from) ==
    CASE from = "pd.Series" ->
            [PdDataFrame(obj.names, obj.dtypes, obj.rows) EXCEPT !.rangeindex = obj.rangeindex]
      [] from = "np.ndarray" ->
            LET m == IF ndim(obj) = 1 THEN 1 ELSE obj.shape[2]
            IN  WithRangeIndex(PdDataFrame(<<"None">>, [c \in 1..m |-> "int64"],
                    [r \in 1..obj.shape[1] |->
                        Row(<<r - 1>>, [c \in 1..m |-> ScalarCell(obj.data[(r - 1) * m + c])])]))
      [] OTHER -> obj

FromDataFrame(df, to) ==
    CASE to = "pd.Series" -> [PdSeries(df.names, df.rows) EXCEPT !.rangeindex = df.rangeindex]
      [] to = "np.ndarray" ->
            NdArray(<<Len(df.rows), Len(df.dtypes)>>,
                    Flatten([r \in 1..Len(df.rows) |->
                               [c \in 1..Len(df.dtypes) |-> df.rows[r].cells[c].num]]))
      [] OTHER -> df

\* Panel scitype: every mtype converts to pd-multiindex, and pd-multiindex to
\* nested_univ and df-list.
ToMultiIndex(obj, from) ==
    CASE from = "nested_univ" ->
            PdDataFrame(<<"instances", "timepoints">>, [c \in 1..Len(obj.dtypes) |-> "int64"],
                Flatten([r \in 1..Len(obj.rows) |->
                    LET times == SortSet(UNION {Range(obj.rows[r].cells[c].index) :
                                                  c \in 1..Len(obj.dtypes)})
                    IN  [k \in 1..Len(times) |->
                            Row(<<obj.rows[r].key[1], times[k]>>,
                                [c \in 1..Len(obj.dtypes) |->
                                    CellAt(obj.rows[r].cells[c], times[k])])]]))
      [] from = "df-list" ->
            PdDataFrame(<<"instances", "timepoints">>,
                IF obj.items = <<>> THEN <<"int64">> ELSE obj.items[1].dtypes,
                Flatten([i \in 1..Len(obj.items) |->
                    [k \in 1..Len(obj.items[i].rows) |->
                        Row(<<i - 1>> \o obj.items[i].rows[k].key,
                            obj.items[i].rows[k].cells)]]))
      [] from = "numpy3D" ->
            LET v == obj.shape[2]
                t == obj.shape[3]
            IN  PdDataFrame(<<"instances", "timepoints">>, [c \in 1..v |-> "int64"],
                    Flatten([i \in 1..obj.shape[1] |->
                        [k \in 1..t |->
                            Row(<<i - 1, k - 1>>,
                                [c \in 1..v |->
                                    ScalarCell(obj.data[(i - 1) * v * t + (c - 1) * t + k])])]]))
      [] OTHER -> obj

InstanceRows(mi, x) == SelectSeq(mi.rows, LAMBDA r : SubSeq(r.key, 1, Len(r.key) - 1) = x)

FromMultiIndex(mi, to) ==
    LET insts == InstanceKeys(mi)
    IN  CASE to = "nested_univ" ->
                PdDataFrame(<<"None">>, [c \in 1..Len(mi.dtypes) |-> "object"],
                    [i \in 1..Len(insts) |->
                        LET rs == InstanceRows(mi, insts[i])
                        IN  Row(insts[i],
                                [c \in 1..Len(mi.dtypes) |->
                                    SeriesCell(TimeValues(rs),
                                               [k \in 1..Len(rs) |-> rs[k].cells[c].num])])])
          [] to = "df-list" ->
                PyList([i \in 1..Len(insts) |->
                    LET rs == InstanceRows(mi, insts[i])
                    IN  PdDataFrame(<<"None">>, mi.dtypes,
                            [k \in 1..Len(rs) |-> Row(<<Last(rs[k].key)>>, rs[k].cells)])])
          [] OTHER -> mi

Convertible(from, to) ==
    /\ Scitype(from) = Scitype(to)
    /\ Scitype(from) # "invalid"
    /\ to # "numpy3D" \/ from = "numpy3D"

Convert(obj, from, to) ==
    IF from = to THEN obj
    ELSE IF Scitype(from) = "Series" THEN FromDataFrame(ToDataFrame(obj, from), to)
    ELSE FromMultiIndex(ToMultiIndex(obj, from), to)

\* convert_to(obj, to_type) with to_type a list of mtypes: no conversion when
\* the mtype of obj is on the list, otherwise to the first mtype of the list
\* that has the scitype of obj.
convert_to(obj, to_type) ==
    LET from == MtypeOf(obj)
        same == {i \in 1..Len(to_type) : Scitype(to_type[i]) = Scitype(from)}
        to == IF from \in Range(to_type) THEN from ELSE to_type[SetMin(same)]
    IN  Convert(obj, from, to)

\* convert_to by reference: a container whose mtype is on the list is handed
\* back as it is, the same object; a converted container is a new object.
\* The heap after the call and the position of the object returned.
convert_to_ref(heap, id, to_type) ==
    IF MtypeOf(heap[id].val) \in Range(to_type) THEN [heap |-> heap, id |-> id]
    ELSE [heap |-> Alloc(heap, convert_to(heap[id].val, to_type)), id |-> Len(heap) + 1]

\* ------------------------------------------------------------- get_window
\* A slip that lists pd.Series among the encodings get_window slices.
SUPPORTED_MTYPES_WITH_SERIES ==
    <<"pd.Series", "pd.DataFrame", "pd-multiindex", "pd_multiindex_hier",
      "np.ndarray", "numpy3D">>

GET_LATEST_WINDOW_SUPPORTED_MTYPES ==
    <<"pd.DataFrame", "pd-multiindex", "pd_multiindex_hier", "np.ndarray", "numpy3D">>

\* line 218, window_end = max(-lag, ...): the second argument is cut off in
\* the source; the tail clamp of the specification, -obj_len, is used.
window_end(lag, obj_len) == Max2(0 - lag, 0 - obj_len)

\* A slip that leaves out the test for window_end == 0: obj[window_start:0].
window_ndarray_no_zero_end(obj, window_length, lag) ==
    LET obj_len == PyLen(obj)
        window_start == Max2(0 - window_length - lag, 0 - obj_len)
    IN  SliceFirstAxis(obj, window_start, Some(window_end(lag, obj_len)))

\* lines 214-222: numpy3D (Panel) or np.ndarray (Series)
window_ndarray(obj, window_length, lag) ==
    LET obj_len == PyLen(obj)
        window_start == Max2(0 - window_length - lag, 0 - obj_len)
        w_end == window_end(lag, obj_len)
    IN  IF w_end = 0 THEN SliceFirstAxis(obj, window_start, None)
        ELSE SliceFirstAxis(obj, window_start, Some(w_end))

\* A slip that closes the window on its lower end.
window_table_closed(obj, cutoff, window_length, lag) ==
    LET win_start_excl == cutoff - window_length - lag
        win_end_incl == cutoff - lag
        time_indices == TimeValues(obj.rows)
        kept == {i \in 1..Len(obj.rows) :
                    time_indices[i] >= win_start_excl /\ time_indices[i] <= win_end_incl}
    IN  [obj EXCEPT !.rows = [k \in 1..Cardinality(kept) |-> obj.rows[SortSet(kept)[k]]],
                    !.rangeindex = FALSE]

\* A slip that windows every instance relative to its own last time point.
window_table_per_instance(obj, cutoff, window_length, lag) ==
    LET own(r) == Last(TimeValues(InstanceRows(obj, SubSeq(r.key, 1, Len(r.key) - 1))))
        time_indices == TimeValues(obj.rows)
        kept == {i \in 1..Len(obj.rows) :
                    /\ time_indices[i] > own(obj.rows[i]) - window_length - lag
                    /\ time_indices[i] <= own(obj.rows[i]) - lag}
    IN  [obj EXCEPT !.rows = [k \in 1..Cardinality(kept) |-> obj.rows[SortSet(kept)[k]]],
                    !.rangeindex = FALSE]

\* lines 227-236: obj.iloc[win_select]; the rows a boolean mask selects carry
\* an index built from their values.
window_table(obj, cutoff, window_length, lag) ==
    LET win_start_excl == cutoff - window_length - lag
        win_end_incl == cutoff - lag
        time_indices == TimeValues(obj.rows)
        win_select == [i \in 1..Len(obj.rows) |->
                          time_indices[i] > win_start_excl /\ time_indices[i] <= win_end_incl]
        kept == {i \in 1..Len(obj.rows) : win_select[i]}
    IN  [obj EXCEPT !.rows = [k \in 1..Cardinality(kept) |-> obj.rows[SortSet(kept)[k]]],
                    !.rangeindex = FALSE]

\* A slip that returns the slice in the normalized encoding.
window_return_raw(obj_subset, obj_in_mtype) == obj_subset

\* line 238: return convert_to(obj_subset, obj_in_mtype)
window_return(obj_subset, obj_in_mtype) == convert_to(obj_subset, <<obj_in_mtype>>)

InputTypeError == "ValueError: obj must be of Series, Panel, or Hierarchical scitype"
UnreachableError ==
    "ValueError: bug in get_latest_window, unreachable condition, ifs should be exhaustive"

\* lines 212-242: normalize, slice, convert back; with the calls made to the
\* two collaborators, in order, and the objects of the call.  Line 212
\* binds the local name obj to what convert_to hands back; the caller's
\* container stays the first object of the heap.  obj[a:b] (lines 220, 222)
\* is a view on the memory of the object sliced, obj.iloc[win_select]
\* (line 236) a new table, and line 238 converts it back.
window_slice(obj, obj_in_mtype, window_length, lag) ==
    LET c == convert_to_ref(Heap(obj), 1, GET_LATEST_WINDOW_SUPPORTED_MTYPES)
        conv == c.heap[c.id].val
    IN  IF conv.pytype = "ndarray"
        THEN LET h == AllocView(c.heap, window_ndarray(conv, window_length, lag), c.id)
             IN  [ret |-> RetRef(h, Len(h)),
                  log |-> <<"check_is_scitype", "convert_to">>, heap |-> h]
        ELSE IF conv.pytype = "DataFrame"
        THEN LET cutoff == get_cutoff(conv, Some(0), FALSE)
             IN  IF cutoff.kind = "raise"
                 THEN [ret |-> cutoff, log |-> <<"check_is_scitype", "convert_to">>,
                       heap |-> c.heap]
                 ELSE LET obj_subset == window_table(conv, cutoff.int, window_length, lag)
                          h == Alloc(c.heap, obj_subset)
                          out == IF MtypeOf(obj_subset) = obj_in_mtype THEN h
                                 ELSE Alloc(h, window_return(obj_subset, obj_in_mtype))
                      IN  [ret |-> RetRef(out, Len(out)),
                           log |-> <<"check_is_scitype", "convert_to", "convert_to">>,
                           heap |-> out]
        ELSE [ret |-> Raise(UnreachableError),
              log |-> <<"check_is_scitype", "convert_to">>, heap |-> c.heap]

\* A slip that asks for the conversion before the detection result is read.
window_checked_convert_first(obj, window_length, lag) ==
    LET chk == check_is_scitype(obj)
    IN  IF ~chk.valid
        THEN [ret |-> Raise(InputTypeError), log |-> <<"convert_to", "check_is_scitype">>,
              heap |-> Heap(obj)]
        ELSE window_slice(obj, chk.mtype, window_length, lag)

\* lines 205-212: detection, then the input-type error or the slicing
window_checked(obj, window_length, lag) ==
    LET chk == check_is_scitype(obj)
    IN  IF ~chk.valid
        THEN [ret |-> Raise(InputTypeError), log |-> <<"check_is_scitype">>,
              heap |-> Heap(obj)]
        ELSE window_slice(obj, chk.mtype, window_length, lag)

\* A slip that runs the detection before the test for window_length None.
get_window_detect_first(obj, window_length, lag) ==
    IF ~check_is_scitype(obj).valid
    THEN [ret |-> Raise(InputTypeError), log |-> <<"check_is_scitype">>, heap |-> Heap(obj)]
    ELSE IF window_length.none
    THEN [ret |-> RetRef(Heap(obj), 1), log |-> <<"check_is_scitype">>, heap |-> Heap(obj)]
    ELSE window_checked(obj, window_length.v, lag)

\* get_window(obj, window_length=None, lag=0); window_length is None or an
\* int.  Line 203 returns the object passed.
get_window(obj, window_length, lag) ==
    IF window_length.none
    THEN [ret |-> RetRef(Heap(obj), 1), log |-> <<>>, heap |-> Heap(obj)]
    ELSE window_checked(obj, window_length.v, lag)

\* --------------------------------------------------------- get_time_index
IsCell(x) == "isobj" \in DOMAIN x

\* X.iloc[r, c] (X.iloc[r] for a pd.Series): the object held in a column of
\* dtype object (a nested series or a Python number), a numpy scalar, which
\* is an array of no dimension, for a number of a numeric column.
iloc(X, r, c) ==
    LET cell == X.rows[r].cells[c]
    IN  IF cell.isobj \/ X.dtypes[c] = "object" THEN cell
        ELSE NdArray(<<>>, <<cell.num>>)

\* _get_index(x): x.index when x has one, else RangeIndex(x.shape[-1]).  A
\* Python number has neither index nor shape (AttributeError); the shape of
\* a numpy scalar is the empty tuple (IndexError); the index of a list or a
\* tuple is its method.
get_index(x) ==
    IF IsCell(x)
    THEN IF x.isobj THEN RetIndex(x.index) ELSE Raise("AttributeError")
    ELSE IF x.pytype \in {"list", "tuple"} THEN RetMethod
    ELSE IF x.pytype \in {"Series", "DataFrame"}
    THEN IF IsMultiIndex(x) THEN RetMultiIndex([i \in 1..Len(x.rows) |-> x.rows[i].key])
         ELSE RetIndex(TimeValues(x.rows))
    ELSE IF x.shape = <<>> THEN Raise("IndexError")
    ELSE RetIndex(RangeIndex(0, Last(x.shape)))

DropAt(key, lvl) == SubSeq(key, 1, lvl - 1) \o SubSeq(key, lvl + 1, Len(key))

\* A slip that takes the instance key of the last row, [-1] for [0].
xs_last_instance(X) ==
    IF ~("instances" \in Range(X.names)) THEN Raise("KeyError")
    ELSE IF X.rows = <<>> THEN Raise("IndexError")
    ELSE LET lvl == CHOOSE l \in 1..Len(X.names) : X.names[l] = "instances"
             lastkey == Last(X.rows).key[lvl]
             sel == SelectSeq(X.rows, LAMBDA r : r.key[lvl] = lastkey)
             keys == [i \in 1..Len(sel) |-> DropAt(sel[i].key, lvl)]
         IN  IF nlevels(X) = 2 THEN RetIndex([i \in 1..Len(keys) |-> keys[i][1]])
             ELSE RetMultiIndex(keys)

\* X.xs(X.index.get_level_values("instances")[0], level="instances").index
xs_first_instance(X) ==
    IF ~("instances" \in Range(X.names)) THEN Raise("KeyError")
    ELSE IF X.rows = <<>> THEN Raise("IndexError")
    ELSE LET lvl == CHOOSE l \in 1..Len(X.names) : X.names[l] = "instances"
             first == X.rows[1].key[lvl]
             sel == SelectSeq(X.rows, LAMBDA r : r.key[lvl] = first)
             keys == [i \in 1..Len(sel) |-> DropAt(sel[i].key, lvl)]
         IN  IF nlevels(X) = 2 THEN RetIndex([i \in 1..Len(keys) |-> keys[i][1]])
             ELSE RetMultiIndex(keys)

get_time_index(X) ==
    IF X.pytype \in {"DataFrame", "Series"}
    THEN IF IsMultiIndex(X) THEN xs_first_instance(X)
         ELSE IF X.rows = <<>> \/ X.dtypes = <<>> THEN Raise("IndexError")
         ELSE get_index(iloc(X, 1, 1))
    ELSE IF X.pytype = "ndarray" THEN get_index(X)
    ELSE Raise("ValueError")

\* ------------------------------------------------------- input containers
Times == 0..MaxTime

\* strictly increasing, non-empty index sequences
SortedIdx == {SortSet(S) : S \in {T \in SUBSET Times : T # {} /\ Cardinality(T) <= MaxLen}}

\* index sequences in any order, without repeated values
AnyIdx == {s \in UNION {[1..k -> Times] : k \in 0..MaxLen} :
              \A i, j \in 1..Len(s) : i # j => s[i] # s[j]}

\* the time indexes of 1..n instances
InstIdx(n) == UNION {[1..k -> SortedIdx] : k \in 1..n}

Array(shape) == NdArray(shape, [p \in 1..Prod(shape) |-> p])

NumRows(idx, base) == [k \in 1..Len(idx) |-> Row(<<idx[k]>>, <<ScalarCell(base + k)>>)]

DataFrameOf(idx) == PdDataFrame(<<"None">>, <<"int64">>, NumRows(idx, 0))

SeriesOf(idx) == PdSeries(<<"None">>, NumRows(idx, 0))

MultiIndexOf(insts) ==
    PdDataFrame(<<"instances", "timepoints">>, <<"int64">>,
        Flatten([i \in 1..Len(insts) |->
            [k \in 1..Len(insts[i]) |->
                Row(<<i - 1, insts[i][k]>>, <<ScalarCell(10 * i + k)>>)]]))

HierOf(insts) ==
    PdDataFrame(<<"foo", "bar", "timepoints">>, <<"int64">>,
        Flatten([i \in 1..Len(insts) |->
            [k \in 1..Len(insts[i]) |->
                Row(<<(i - 1) \div 2, (i - 1) % 2, insts[i][k]>>,
                    <<ScalarCell(10 * i + k)>>)]]))

DfListOf(insts) ==
    PyList([i \in 1..Len(insts) |->
              PdDataFrame(<<"None">>, <<"int64">>, NumRows(insts[i], 10 * i))])

\* cells[r][c] is the index of the series nested in row r, column c
NestedOf(cells) ==
    PdDataFrame(<<"None">>,
                IF cells = <<>> THEN <<"object">> ELSE [c \in 1..Len(cells[1]) |-> "object"],
                [r \in 1..Len(cells) |->
                    Row(<<r - 1>>,
                        [c \in 1..Len(cells[r]) |->
                            SeriesCell(cells[r][c],
                                       [k \in 1..Len(cells[r][c]) |-> 100 * c + 10 * r + k])])])

Arrays ==
    {Array(<<n>>) : n \in 0..MaxLen}
    \cup {Array(<<n, m>>) : n \in 0..MaxLen, m \in 1..2}
    \cup {Array(<<n, v, t>>) : n \in 0..MaxInst, v \in 1..2, t \in 0..MaxLen}

Tables ==
    {DataFrameOf(idx) : idx \in AnyIdx} \cup {SeriesOf(idx) : idx \in AnyIdx}
    \cup {WithRangeIndex(DataFrameOf(RangeIndex(0, n))) : n \in 0..MaxLen}

\* collections and nested-cell tables that hold a series without time points
EmptyConstituents ==
    {DfListOf(<<<<>>>>), DfListOf(<<<<0>>, <<>>>>), DfListOf(<<<<>>, <<0>>>>),
     NestedOf(<<<<<<>>>>>>), NestedOf(<<<<<<0>>>>, <<<<>>>>>>)}

Panels ==
    {MultiIndexOf(insts) : insts \in InstIdx(MaxInst) \cup {<<>>}}
    \cup {HierOf(insts) : insts \in InstIdx(MaxInst)}
    \cup {DfListOf(insts) : insts \in InstIdx(MaxInst) \cup {<<>>}}
    \cup {NestedOf([r \in 1..Len(insts) |-> <<insts[r]>>]) : insts \in InstIdx(MaxInst) \cup {<<>>}}
    \cup {NestedOf(<<cols>>) : cols \in [1..2 -> SortedIdx]}
    \cup {PyList([i \in 1..Len(lens) |-> WithRangeIndex(DataFrameOf(RangeIndex(0, lens[i])))]) :
             lens \in UNION {[1..k -> 1..MaxLen] : k \in 1..MaxInst}}
    \cup EmptyConstituents

\* objects that are no time series container
Others ==
    {PyTuple(<<>>), PyTuple(<<1, 2>>), Array(<<>>), Array(<<1, 1, 1, 1>>),
     PyList(<<DataFrameOf(<<0>>), MultiIndexOf(<<<<0>>>>)>>),
     PyList(<<MultiIndexOf(<<<<0>>>>), WithRangeIndex(DataFrameOf(<<0>>))>>)}

\* the containers of the scenarios of the specification
Buffer10 == Array(<<10>>)
TwoByFive == MultiIndexOf(<<RangeIndex(0, 5), RangeIndex(0, 5)>>)
Ragged576 == DfListOf(<<RangeIndex(0, 6), RangeIndex(0, 8), RangeIndex(0, 7)>>)
Scenarios == {Buffer10, TwoByFive, Ragged576}

Containers == Arrays \cup Tables \cup Panels \cup Others \cup Scenarios

Offsets == {None} \cup {Some(k) : k \in (0 - 1)..MaxOff}
WindowLengths == {None} \cup {Some(w) : w \in (0 - 1)..MaxWin}
Lags == (0 - 1)..MaxLag

\* ---------------------------------------------------------- state machine
VARIABLES obj, call, ret, log

vars == <<obj, call, ret, log>>

NoCall == [op |-> "none", cutoff |-> None, return_index |-> FALSE,
           window_length |-> None, lag |-> 0]

Init ==
    /\ obj \in Containers
    /\ call = NoCall
    /\ ret = Pending
    /\ log = <<>>

GetTimeIndex ==
    /\ call.op = "none"
    /\ call' = [NoCall EXCEPT !.op = "get_time_index"]
    /\ ret' = get_time_index(obj)
    /\ UNCHANGED <<obj, log>>

GetCutoff ==
    /\ call.op = "none"
    /\ \E cutoff \in Offsets, return_index \in BOOLEAN :
        /\ call' = [NoCall EXCEPT !.op = "get_cutoff", !.cutoff = cutoff,
                                  !.return_index = return_index]
        /\ ret' = get_cutoff(obj, cutoff, return_index)
    /\ UNCHANGED <<obj, log>>

GetWindow ==
    /\ call.op = "none"
    /\ \E window_length \in WindowLengths, lag \in Lags :
        /\ call' = [NoCall EXCEPT !.op = "get_window", !.window_length = window_length,
                                  !.lag = lag]
        /\ ret' = get_window(obj, window_length, lag).ret
        /\ log' = get_window(obj, window_length, lag).log
        /\ obj' = get_window(obj, window_length, lag).heap[1].val

Next == GetTimeIndex \/ GetCutoff \/ GetWindow

Spec == Init /\ [][Next]_vars

\* ------------------------------------------------------------------ claims
Called(op) == call.op = op

Windowed == Called("get_window") /\ ~call.window_length.none

InWindow(t, cutoff, w, lag) == cutoff - w - lag < t /\ t <= cutoff - lag

TableMtypes == {"pd.DataFrame", "pd-multiindex", "pd_multiindex_hier"}

\* C1: for a single-index, two-level or hierarchy table accepted by type
\* detection, and window_length w and lag L not None, get_window returns the
\* table holding exactly the rows of the input whose time index t satisfies
\* cutoff - w - L < t <= cutoff - L, cutoff = get_cutoff(C) with offset 0:
\* no row outside the interval is kept, none inside is dropped.
C1_WindowIsHalfOpenInterval ==
    (Windowed /\ MtypeOf(obj) \in TableMtypes /\ check_is_scitype(obj).valid) =>
        LET cutoff == get_cutoff(obj, Some(0), FALSE).int
            inside(r) == InWindow(Last(r.key), cutoff, call.window_length.v, call.lag)
        IN  /\ ret.kind = "return" /\ ret.ty = "container"
            /\ \A i \in 1..Len(obj.rows) :
                   inside(obj.rows[i]) <=> obj.rows[i] \in Range(ret.obj.rows)
            /\ Range(ret.obj.rows) \subseteq Range(obj.rows)
            /\ Len(ret.obj.rows) = Cardinality(Range(ret.obj.rows))

\* A two-level table of four rows windowed with length 1 and lag 1: two rows
\* are kept, two are dropped.
C1_Witness ==
    /\ Windowed /\ MtypeOf(obj) = "pd-multiindex"
    /\ call.window_length.v = 1 /\ call.lag = 1
    /\ ret.kind = "return"
    /\ Len(ret.obj.rows) = 2
    /\ Len(obj.rows) = 4

\* C2 (as claimed): for every non-empty container of a supported encoding,
\* get_cutoff(C, 0, return_index=True) is an index of length 1 whose sole
\* value is the scalar get_cutoff(C, 0, return_index=False).
C2_IndexWrapsScalar ==
    (/\ Called("get_cutoff") /\ call.return_index /\ call.cutoff = Some(0)
     /\ MtypeOf(obj) # "invalid" /\ PyLen(obj) > 0) =>
        /\ ret.kind = "return" /\ ret.ty = "Index"
        /\ Len(ret.index) = 1
        /\ ret.index[1] = get_cutoff(obj, Some(0), FALSE).int

\* C3: for a container of length 0 and every offset k, get_cutoff returns the
\* bare k whether or not an index is asked for; the offset None returns 0.
C3_EmptyReturnsOffset ==
    (Called("get_cutoff") /\ MtypeOf(obj) # "invalid" /\ PyLen(obj) = 0) =>
        /\ ret.kind = "return" /\ ret.ty = "int" /\ ret.index = <<>>
        /\ ret.int = (IF call.cutoff.none THEN 0 ELSE call.cutoff.v)

\* An empty table asked for its cutoff as an index, with offset 1.
C3_Witness ==
    /\ Called("get_cutoff") /\ call.return_index /\ call.cutoff = Some(1)
    /\ obj.pytype = "DataFrame" /\ obj.rows = <<>>
    /\ ret = RetInt(1)

\* C4: for a container accepted by type detection and window_length not None
\* get_window returns a container of the mtype of the input, on the
\* flat-buffer path and on the table path.
C4_WindowKeepsMtype ==
    (Windowed /\ check_is_scitype(obj).valid) =>
        /\ ret.kind = "return" /\ ret.ty = "container"
        /\ MtypeOf(ret.obj) = MtypeOf(obj)

\* A pd.Series, normalized to pd.DataFrame for slicing, comes back as pd.Series.
C4_Witness ==
    /\ Windowed /\ MtypeOf(obj) = "pd.Series"
    /\ ret.kind = "return" /\ MtypeOf(ret.obj) = "pd.Series"
    /\ ret.obj.rows # <<>> /\ ret.obj.rows # obj.rows

LastOfInstance(o, x) == Last(TimeValues(InstanceRows(o, x)))

\* C5: for a non-empty two-level table with monotone time index per instance,
\* ragged or not, the scalar get_cutoff is the maximum over the instances of
\* the instance's last time value; for 2 instances sharing 0..4 it is 4.
C5_MultiIndexCutoffIsMaxOfLasts ==
    (/\ Called("get_cutoff") /\ ~call.return_index
     /\ MtypeOf(obj) = "pd-multiindex" /\ obj.rows # <<>>
     /\ check_is_scitype(obj).valid) =>
        LET lasts == {LastOfInstance(obj, x) : x \in Range(InstanceKeys(obj))}
        IN  /\ ret.kind = "return" /\ ret.ty = "int"
            /\ ret.int \in lasts
            /\ \A l \in lasts : l <= ret.int
            /\ obj = TwoByFive => ret.int = 4

\* A ragged table whose first instance ends later than its last row.
C5_Witness ==
    /\ Called("get_cutoff") /\ ~call.return_index
    /\ MtypeOf(obj) = "pd-multiindex" /\ obj.rows # <<>>
    /\ ret.kind = "return" /\ ret.int > Last(Last(obj.rows).key)

\* The last index values of the constituent series of a collection of tables
\* or of a nested-cell table.
ConstituentLasts(o) ==
    IF o.pytype = "list"
    THEN {Last(TimeValues(o.items[i].rows)) : i \in 1..Len(o.items)}
    ELSE {Last(o.rows[r].cells[c].index) : r \in 1..Len(o.rows), c \in objcols(o)}

\* every constituent series holds at least one time point
NonEmptyConstituents(o) ==
    IF o.pytype = "list" THEN \A i \in 1..Len(o.items) : o.items[i].rows # <<>>
    ELSE \A r \in 1..Len(o.rows), c \in objcols(o) :
             o.rows[r].cells[c].isobj /\ o.rows[r].cells[c].index # <<>>

\* C6: for a non-empty collection of one-level tables and a non-empty
\* nested-cell table, every constituent series of which holds at least one
\* time point, the scalar get_cutoff is the maximum over every constituent
\* series (every table; every nested series of every object column) of its
\* last index value; for tables ending at 5, 7 and 6 it is 7.
C6_CollectionCutoffIsMaxOfLasts ==
    (/\ Called("get_cutoff") /\ ~call.return_index
     /\ MtypeOf(obj) \in {"df-list", "nested_univ"} /\ PyLen(obj) > 0
     /\ NonEmptyConstituents(obj)) =>
        /\ ret.kind = "return" /\ ret.ty = "int"
        /\ ret.int \in ConstituentLasts(obj)
        /\ \A l \in ConstituentLasts(obj) : l <= ret.int
        /\ obj = Ragged576 => ret.int = 7

\* C6, the other case: a constituent series without time points has no last
\* index value, and get_cutoff raises IndexError.
C6_EmptyConstituentRaises ==
    (/\ Called("get_cutoff")
     /\ MtypeOf(obj) \in {"df-list", "nested_univ"} /\ PyLen(obj) > 0
     /\ ~NonEmptyConstituents(obj)) =>
        ret = Raise("IndexError")

\* The three tables ending at 5, 7 and 6.
C6_Witness ==
    /\ Called("get_cutoff") /\ ~call.return_index
    /\ obj = Ragged576 /\ ret = RetInt(7)

\* C7: for a non-empty flat buffer and offset k the scalar get_cutoff is k
\* plus the size of the last dimension for 3 dimensions, k plus the size of
\* the first dimension for 1 or 2; 10 values and offset 0 give 10.
C7_BufferCutoffIsSize ==
    (/\ Called("get_cutoff") /\ ~call.return_index
     /\ obj.pytype = "ndarray" /\ ndim(obj) \in 1..3 /\ PyLen(obj) > 0) =>
        LET k == IF call.cutoff.none THEN 0 ELSE call.cutoff.v
        IN  /\ ret.kind = "return" /\ ret.ty = "int"
            /\ ndim(obj) = 3 => ret.int = k + obj.shape[3]
            /\ ndim(obj) < 3 => ret.int = k + obj.shape[1]
            /\ (obj = Buffer10 /\ k = 0) => ret.int = 10

\* A 3-D buffer whose first and last dimensions differ, with offset 1.
C7_Witness ==
    /\ Called("get_cutoff") /\ ~call.return_index /\ call.cutoff = Some(1)
    /\ obj.pytype = "ndarray" /\ ndim(obj) = 3
    /\ obj.shape[1] = 1 /\ obj.shape[3] = 2
    /\ ret = RetInt(3)

\* C8: with window_length None, for every container (also one that type
\* detection rejects) and every lag, get_window returns the container itself
\* and calls neither collaborator.
C8_NoneWindowIsIdentity ==
    (Called("get_window") /\ call.window_length.none) =>
        /\ ret = RetRef(Heap(obj), 1)
        /\ ret.obj = obj /\ ret.alias
        /\ log = <<>>

\* An object that is no container, passed with window_length None and lag 1.
C8_Witness ==
    /\ Called("get_window") /\ call.window_length.none /\ call.lag = 1
    /\ ~check_is_scitype(obj).valid
    /\ ret.kind = "return" /\ ret.obj = obj

\* C9: with window_length not None and a container that type detection
\* reports as not valid, get_window raises the input-type error, returns no
\* container, and the conversion collaborator is never called.
C9_InvalidRaisesBeforeConversion ==
    (Windowed /\ ~check_is_scitype(obj).valid) =>
        /\ ret = Raise(InputTypeError)
        /\ log = <<"check_is_scitype">>

\* A table with an unordered index, rejected by type detection.
C9_Witness ==
    /\ Windowed /\ obj.pytype = "DataFrame" /\ ~check_is_scitype(obj).valid
    /\ ret.kind = "raise"

C10Mtypes == {"np.ndarray", "numpy3D", "pd.DataFrame", "nested_univ", "pd-multiindex"}

\* C10 (as claimed): for a container held as flat buffer, single-index table,
\* nested-cell table or two-level table, and the same data held in another of
\* these encodings, get_time_index returns an index for both and the two
\* indexes are equal element by element.
C10_TimeIndexAgreesAcrossEncodings ==
    (Called("get_time_index") /\ MtypeOf(obj) \in C10Mtypes) =>
        \A to \in C10Mtypes :
            (to # MtypeOf(obj) /\ Convertible(MtypeOf(obj), to)) =>
                LET other == get_time_index(Convert(obj, MtypeOf(obj), to))
                IN  /\ ret.kind = "return" /\ ret.ty = "Index"
                    /\ other.kind = "return" /\ other.ty = "Index"
                    /\ other.index = ret.index


\* The encodings the claims on get_time_index name: flat buffer, single-index
\* table (series included), nested-cell table, two-level table.
TimeIndexMtypes == C10Mtypes \cup {"pd.Series"}

\* C11 (as claimed): get_time_index raises the unsupported-type error exactly
\* when the container is none of flat buffer, single-index table, nested-cell
\* table or two-level table, and for every container of one of these
\* encodings it returns an index without raising.  Stated for buffers of 1
\* to 3 dimensions and non-empty tables.
C11_TimeIndexRaisesOnlyOnUnsupported ==
    (/\ Called("get_time_index")
     /\ obj.pytype = "ndarray" => ndim(obj) \in 1..3
     /\ obj.pytype \in {"Series", "DataFrame"} => obj.rows # <<>>) =>
        /\ ret = Raise("ValueError") <=> ~(MtypeOf(obj) \in TimeIndexMtypes)
        /\ MtypeOf(obj) \in TimeIndexMtypes => (ret.kind = "return" /\ ret.ty = "Index")

\* C16 (as claimed): every call of get_time_index, get_cutoff and get_window
\* returns an index, a scalar or a container, or raises; none returns None.
C16_NeverReturnsNone ==
    ~Called("none") =>
        \/ ret.kind = "raise" /\ ret.err # ""
        \/ ret.kind = "return" /\ ret.ty \in {"int", "tuple", "Index", "MultiIndex", "container"}

\* C19: for a two-level table get_time_index returns the time index of the
\* instance of the first row, the instance level dropped, whether or not the
\* other instances have the same index, and does not raise.
C19_TimeIndexOfFirstInstance ==
    (Called("get_time_index") /\ MtypeOf(obj) = "pd-multiindex" /\ obj.rows # <<>>) =>
        LET first == obj.rows[1].key[1]
            own == {i \in 1..Len(obj.rows) : obj.rows[i].key[1] = first}
        IN  /\ ret.kind = "return" /\ ret.ty = "Index"
            /\ Len(ret.index) = Cardinality(own)
            /\ \A k \in 1..Len(ret.index) : ret.index[k] = obj.rows[SortSet(own)[k]].key[2]

\* Two instances with different time indexes: the first one's is returned.
C19_Witness ==
    /\ Called("get_time_index") /\ MtypeOf(obj) = "pd-multiindex"
    /\ Len(InstanceKeys(obj)) = 2
    /\ LocTimeValues(obj, InstanceKeys(obj)[1]) # LocTimeValues(obj, InstanceKeys(obj)[2])
    /\ ret = RetIndex(LocTimeValues(obj, InstanceKeys(obj)[1]))


\* the container get_window(C, w, 0) returns
Again0(C, w) == get_window(C, Some(w), 0).ret.obj

\* get_window applied to the container a first call returned
Again(w, lag) == get_window(ret.obj, Some(w), lag).ret

\* C12 (as claimed): for every supported container and every window length
\* w, get_window with window_length w and lag 0 applied to its own result
\* returns that result again.
C12_WindowIdempotent ==
    (Windowed /\ call.lag = 0 /\ check_is_scitype(obj).valid) =>
        /\ ret.kind = "return" /\ ret.ty = "container"
        /\ Again(call.window_length.v, 0) = ret

\* C12, window lengths w >= 0 only: the case in which the code is idempotent.
C12_WindowIdempotentNonNegative ==
    (Windowed /\ call.lag = 0 /\ call.window_length.v >= 0
     /\ check_is_scitype(obj).valid) =>
        /\ ret.kind = "return" /\ ret.ty = "container"
        /\ Again(call.window_length.v, 0) = ret

\* The time axis of a flat buffer: the last axis of a 3-D buffer (instances x
\* variables x time steps), the first axis of a 1-D or 2-D one.
TimeSteps(o) == IF ndim(o) = 3 THEN o.shape[3] ELSE o.shape[1]

\* A 3-D buffer cut down to the time steps a..b-1 (counted from 0).
SliceTimeAxis3D(o, a, b) ==
    LET t == o.shape[3]
        keep == {p \in 1..Len(o.data) : (p - 1) % t >= a /\ (p - 1) % t < b}
    IN  NdArray(<<o.shape[1], o.shape[2], Cardinality({k \in 0..(t - 1) : a <= k /\ k < b})>>,
                [k \in 1..Cardinality(keep) |-> o.data[SortSet(keep)[k]]])

\* o without its L most recent index positions: the last L time steps of a
\* flat buffer, the rows with time index above cutoff - L of a table.
WithoutRecent(o, L, cutoff) ==
    IF o.pytype = "ndarray"
    THEN IF ndim(o) = 3 THEN SliceTimeAxis3D(o, 0, o.shape[3] - L)
         ELSE SliceFirstAxis(o, 0, Some(Max2(o.shape[1] - L, 0)))
    ELSE [o EXCEPT !.rows = SelectSeq(o.rows, LAMBDA r : Last(r.key) <= cutoff - L)]

BufferOrTable(o) == MtypeOf(o) \in TableMtypes \cup {"np.ndarray", "numpy3D"}

\* C13 (as claimed): for flat buffers and tables, window length w and lag
\* L >= 0, get_window(C, w, L) is get_window(C, w + L, 0) without its L most
\* recent index positions.  Stated for buffers that hold at least one value.
C13_LagDropsMostRecent ==
    (/\ Windowed /\ call.lag >= 0 /\ BufferOrTable(obj) /\ check_is_scitype(obj).valid
     /\ obj.pytype = "ndarray" => Prod(obj.shape) > 0) =>
        /\ ret.kind = "return" /\ ret.ty = "container"
        /\ ret.obj = WithoutRecent(Again0(obj, call.window_length.v + call.lag), call.lag,
                                   get_cutoff(obj, Some(0), FALSE).int)

\* C13 without 3-D buffers: the case in which the code satisfies the claim.
C13_LagDropsMostRecentNot3D ==
    (MtypeOf(obj) # "numpy3D") => C13_LagDropsMostRecent

\* every instance of a table has consecutive integer time values
UnitSpaced(o) ==
    o.pytype = "ndarray" \/
    \A x \in Range(InstanceKeys(o)) :
        LET ts == LocTimeValues(o, x) IN ts = RangeIndex(ts[1], ts[1] + Len(ts))

\* the largest number of time points the result holds for one instance
TimePointsPerInstance(o) ==
    IF o.pytype = "ndarray" THEN (IF Prod(o.shape) = 0 THEN 0 ELSE TimeSteps(o))
    ELSE IF o.rows = <<>> THEN 0
    ELSE PyMax([i \in 1..Len(InstanceKeys(o)) |-> Len(InstanceRows(o, InstanceKeys(o)[i]))])

\* the values of C at its L most recent time points
RecentValues(C, L) ==
    IF C.pytype = "ndarray"
    THEN {C.data[p] : p \in {q \in 1..Len(C.data) :
              IF ndim(C) = 3 THEN (q - 1) % C.shape[3] >= C.shape[3] - L
              ELSE (q - 1) \div Prod(Tail(C.shape)) >= C.shape[1] - L}}
    ELSE {r \in Range(C.rows) : Last(r.key) > get_cutoff(C, Some(0), FALSE).int - L}

ValuesOf(o) == IF o.pytype = "ndarray" THEN Range(o.data) ELSE Range(o.rows)

\* C14 (as claimed): for a container with unit-spaced integer time index,
\* window_length w >= 0 and lag L >= 0, get_window keeps at most w time
\* points per instance and none of the L most recent time points; with
\* window_length 0 it keeps no time point.
C14_AtMostWindowLengthPoints ==
    (/\ Windowed /\ call.window_length.v >= 0 /\ call.lag >= 0
     /\ BufferOrTable(obj) /\ check_is_scitype(obj).valid /\ UnitSpaced(obj)) =>
        /\ ret.kind = "return" /\ ret.ty = "container"
        /\ TimePointsPerInstance(ret.obj) <= call.window_length.v
        /\ ValuesOf(ret.obj) \cap RecentValues(obj, call.lag) = {}

\* C14 without 3-D buffers and without window_length = lag = 0 on a buffer:
\* the cases in which the code satisfies the claim.
C14_ExceptZeroWindowOnBuffer ==
    (MtypeOf(obj) # "numpy3D"
     /\ ~(obj.pytype = "ndarray" /\ call.window_length.v = 0 /\ call.lag = 0)) =>
        C14_AtMostWindowLengthPoints

\* C15: for a flat buffer of length n >= 1, lag 0 and window_length w >= 1,
\* get_window returns the last min(w, n) positions, the final one included:
\* the upper bound 0 slices to the end and the result is never empty, and
\* the lower bound stops at the start of the buffer when w > n.
C15_BufferWindowIsTail ==
    (/\ Windowed /\ obj.pytype = "ndarray" /\ check_is_scitype(obj).valid
     /\ PyLen(obj) >= 1 /\ call.lag = 0 /\ call.window_length.v >= 1) =>
        LET n == obj.shape[1]
            k == Min2(call.window_length.v, n)
            stride == Prod(Tail(obj.shape))
        IN  /\ ret.kind = "return" /\ ret.ty = "container"
            /\ ret.obj.shape = <<k>> \o Tail(obj.shape)
            /\ k >= 1
            /\ ret.obj.data = [p \in 1..(k * stride) |-> obj.data[(n - k) * stride + p]]

\* A buffer of 2 values with window_length 1: the last value is returned.
C15_Witness ==
    /\ Windowed /\ obj = Array(<<2>>) /\ call.lag = 0 /\ call.window_length.v = 1
    /\ ret.kind = "return" /\ ret.obj.data = <<2>>

\* C18: for a container that type detection accepts, get_window never
\* reaches its final "unreachable condition" error: every normalized encoding
\* is an ndarray or a DataFrame.
C18_UnreachableIsUnreachable ==
    (Windowed /\ check_is_scitype(obj).valid) => ret.err # UnreachableError

\* A collection of tables, normalized to a two-level table and sliced.
C18_Witness ==
    /\ Windowed /\ MtypeOf(obj) = "df-list" /\ PyLen(obj) = 2
    /\ log = <<"check_is_scitype", "convert_to", "convert_to">>
    /\ ret.kind = "return" /\ PyLen(ret.obj) = 1

\* C20 (as claimed): for a 1-D flat buffer of length n and the single-index
\* table holding the same values under the time index 0..n-1, get_window
\* with the same window_length >= 0 and lag >= 0 selects the same positions.
C20_BufferAndTableAgree ==
    (/\ Windowed /\ obj.pytype = "ndarray" /\ ndim(obj) = 1
     /\ call.window_length.v >= 0 /\ call.lag >= 0) =>
        LET table == get_window(ToDataFrame(obj, "np.ndarray"), call.window_length,
                                call.lag).ret
        IN  /\ ret.kind = "return" /\ table.kind = "return"
            /\ ret.obj.data = [i \in 1..Len(table.obj.rows) |-> table.obj.rows[i].cells[1].num]

\* C20 without window_length = lag = 0: the case in which the two agree.
C20_ExceptZeroWindow ==
    ~(call.window_length.v = 0 /\ call.lag = 0) => C20_BufferAndTableAgree

\* a container with at least one entry
HoldsEntries(o) == IF o.pytype = "ndarray" THEN Prod(o.shape) > 0 ELSE PyLen(o) > 0

C17_InputUnchangedResultDistinct ==
    [][/\ obj' = obj
       /\ (call'.op = "get_window" /\ ~call'.window_length.none /\ ret'.kind = "return")
              => (~ret'.alias /\ (obj.pytype # "ndarray" => ~ret'.shared))]_vars

\* C21 (as claimed): for a 3-D flat buffer (instances x variables x time
\* steps) and a window_length >= 0 with lag >= 0, get_window keeps every
\* instance and every variable and restricts the time dimension only: the
\* result is the buffer cut down to a range a..b-1 of its time steps.
\* Stated for buffers that hold at least one value.
C21_WindowOverTimeAxis ==
    (/\ Windowed /\ MtypeOf(obj) = "numpy3D" /\ check_is_scitype(obj).valid
     /\ Prod(obj.shape) > 0
     /\ call.window_length.v >= 0 /\ call.lag >= 0) =>
        /\ ret.kind = "return" /\ ret.ty = "container"
        /\ ret.obj.shape[1] = obj.shape[1]
        /\ ret.obj.shape[2] = obj.shape[2]
        /\ \E a, b \in 0..obj.shape[3] : ret.obj = SliceTimeAxis3D(obj, a, b)

\* C21, what the code does instead: the variables and the time steps of a
\* 3-D buffer are all kept, and the window is taken over the instances.
C21_WindowOverInstances ==
    (Windowed /\ MtypeOf(obj) = "numpy3D" /\ check_is_scitype(obj).valid) =>
        /\ ret.kind = "return" /\ ret.ty = "container"
        /\ ret.obj.shape[2] = obj.shape[2]
        /\ ret.obj.shape[3] = obj.shape[3]
        /\ ret.obj.shape[1] <= obj.shape[1]

\* the latest time point of a two-level table: the maximum over its
\* instances of the instance's last time value
GlobalCutoff(o) ==
    LET lasts == {LastOfInstance(o, x) : x \in Range(InstanceKeys(o))}
    IN  CHOOSE m \in lasts : \A l \in lasts : l <= m

\* C22: for a non-empty two-level table, ragged or not, get_window applies
\* one window, relative to the global cutoff (the maximum over the instances
\* of the last time value), to all instances: of every instance exactly the
\* rows with time value in (cutoff - window_length - lag, cutoff - lag] are
\* kept, in order, and an instance whose last time value is at most
\* cutoff - window_length - lag contributes no row.
C22_RaggedUsesGlobalCutoff ==
    (/\ Windowed /\ MtypeOf(obj) = "pd-multiindex" /\ obj.rows # <<>>
     /\ check_is_scitype(obj).valid) =>
        LET cutoff == GlobalCutoff(obj)
            w == call.window_length.v
        IN  /\ ret.kind = "return" /\ ret.ty = "container"
            /\ \A x \in Range(InstanceKeys(obj)) :
                /\ InstanceRows(ret.obj, x) =
                       SelectSeq(InstanceRows(obj, x),
                                 LAMBDA r : InWindow(Last(r.key), cutoff, w, call.lag))
                /\ LastOfInstance(obj, x) <= cutoff - w - call.lag =>
                       InstanceRows(ret.obj, x) = <<>>
            /\ Range(InstanceKeys(ret.obj)) \subseteq Range(InstanceKeys(obj))

\* A ragged table of two instances windowed with length 1 and lag 0: the
\* instance that ends earlier contributes no row, the other one its last row.
C22_Witness ==
    /\ Windowed /\ MtypeOf(obj) = "pd-multiindex"
    /\ call.window_length.v = 1 /\ call.lag = 0
    /\ Len(InstanceKeys(obj)) = 2
    /\ ret.kind = "return" /\ Len(ret.obj.rows) = 1
    /\ \E x \in Range(InstanceKeys(obj)) :
          /\ LastOfInstance(obj, x) < GlobalCutoff(obj)
          /\ InstanceRows(ret.obj, x) = <<>>

====
